---------------------------- MODULE Spec2Model ----------------------------
(***************************************************************************)
(* Model of src/main.py: a Streamlit script that turns a natural-language  *)
(* question into SQL with a language model, cleans the model's text, runs  *)
(* it and displays the result.                                             *)
(*                                                                         *)
(* Text is modelled as a sequence of characters (one-character strings;    *)
(* the backtick is written BT), so that strip, startswith, rstrip and      *)
(* literal parsing are computed character by character as Python does.     *)
(***************************************************************************)
EXTENDS Integers, Sequences, FiniteSets, TLC

VARIABLES
    \* --- process-wide state (survives script reruns) ---
    environ,        \* which of MYSQL_PASSWORD / GROQ_API_KEY load_dotenv+getenv yield non-empty
    db_cache,       \* st.cache_resource of get_database_connection: schema name -> handle (0: none)
    llm_cache,      \* st.cache_resource of get_llm: handle (0: none)
    \* --- session widget state ---
    selected_db,    \* value of the selectbox
    user_question,  \* value of the text input
    clicked,        \* TRUE in the run the button press triggered
    \* --- one script run ---
    pc,             \* position of the running script ("idle": waiting for the user)
    db,             \* module variable db (0: unset)
    llm,            \* module variable llm (0: unset)
    raw,            \* the text returned by sql_chain.invoke (line 123)
    sql_query,      \* variable sql_query while it is cleaned (lines 126-132)
    result,         \* value returned by db.run (line 140)
    display,        \* what the result block put on the page (lines 144-161)
    trace,          \* elements shown and external calls made by this run, in order
    \* --- observation of the calls made (not read by the script) ---
    created,        \* schema name -> number of SQLDatabase.from_uri calls that returned
    llm_created,    \* number of ChatGroq(...) calls
    errors_seen,    \* handler errors reported by earlier requests (saturates)
    last_conn_failed, \* schema name of the latest failed connection attempt
    \* --- drivers of the function-level specifications ---
    parts,          \* the pieces the raw model text was assembled from
    first_out,      \* sql_query at the end of the first cleaning pass
    pass            \* number of the cleaning pass under way

procVars == <<environ, db_cache, llm_cache>>
widgetVars == <<selected_db, user_question, clicked>>
obsVars == <<created, llm_created, errors_seen, last_conn_failed>>
driverVars == <<parts, first_out, pass>>
vars == <<environ, db_cache, llm_cache, selected_db, user_question, clicked,
          pc, db, llm, raw, sql_query, result, display, trace,
          created, llm_created, errors_seen, last_conn_failed,
          parts, first_out, pass>>

-----------------------------------------------------------------------------
(* Bounds *)

\* Largest number of pieces a raw model response is assembled from.
MaxParts == 3
\* Largest number of tokens of an arbitrary (possibly malformed) result text.
MaxJunk == 3
\* Largest number of elements of a result list, and of fields of a record.
MaxRows == 2
MaxCols == 2
\* Cap on the calls counted per cached function (the cache keeps it at 1).
MaxCreations == 2
\* Value at which the count of earlier failed requests saturates.
MaxErrors == 2

-----------------------------------------------------------------------------
(* Python str helpers *)

\* The backtick character.
BT == "BT"

\* Characters str.strip() with no argument removes (the ones the model uses).
Whitespace == {" ", "\n"}

\* Index of the first character of s that is not in cs, Len(s)+1 if none.
FirstKeep(s, cs) ==
    IF \A k \in 1..Len(s) : s[k] \in cs
    THEN Len(s) + 1
    ELSE CHOOSE k \in 1..Len(s) : s[k] \notin cs /\ \A j \in 1..(k-1) : s[j] \in cs

\* Index of the last character of s that is not in cs, 0 if none.
LastKeep(s, cs) ==
    IF \A k \in 1..Len(s) : s[k] \in cs
    THEN 0
    ELSE CHOOSE k \in 1..Len(s) : s[k] \notin cs /\ \A j \in (k+1)..Len(s) : s[j] \in cs

\* str.rstrip(chars)
RStrip(s, cs) == SubSeq(s, 1, LastKeep(s, cs))

\* str.strip(chars)
StripChars(s, cs) == SubSeq(s, FirstKeep(s, cs), LastKeep(s, cs))

\* str.strip()
Strip(s) == StripChars(s, Whitespace)

\* str.startswith(p)
StartsWith(s, p) == Len(p) <= Len(s) /\ SubSeq(s, 1, Len(p)) = p

\* s[len(p):]
DropPrefix(s, p) == SubSeq(s, Len(p) + 1, Len(s))

-----------------------------------------------------------------------------
(* The cleaning block, main.py:126-132 *)

Fence == <<BT, BT, BT>>
FenceSql == Fence \o <<"s", "q", "l">>
LabelQuery == <<"Q", "u", "e", "r", "y", ":">>
LabelSqlQuery == <<"S", "Q", "L", " ">> \o LabelQuery

\* prefixes_to_remove, in the order of the list
prefixes_to_remove == <<FenceSql, Fence, LabelSqlQuery, LabelQuery>>

\* One iteration of the loop body: lines 129-130.
RemoveIfPrefix(s, p) == IF StartsWith(s, p) THEN Strip(DropPrefix(s, p)) ELSE s

\* A loop that stops at the first prefix that matches (a break after line 130).
RECURSIVE RemoveFirstPrefix(_, _)
RemoveFirstPrefix(s, ps) ==
    IF ps = <<>> THEN s
    ELSE IF StartsWith(s, Head(ps)) THEN Strip(DropPrefix(s, Head(ps)))
    ELSE RemoveFirstPrefix(s, Tail(ps))

\* for prefix in prefixes_to_remove: ... (lines 128-130); there is no break,
\* every prefix of the list is tried in turn on the text left so far.
RECURSIVE RemovePrefixes(_, _)
RemovePrefixes(s, ps) ==
    IF ps = <<>> THEN s
    ELSE RemovePrefixes(RemoveIfPrefix(s, Head(ps)), Tail(ps))

\* sql_query.rstrip(';').strip(BT).strip()  (line 132)
Finish(s) == Strip(StripChars(RStrip(s, {";"}), {BT}))

-----------------------------------------------------------------------------
(* Python values the result block handles, and their text forms *)

PyInt(k) == [t |-> "int", n |-> k, items |-> <<>>]
PyNone == [t |-> "none", n |-> 0, items |-> <<>>]
PyList(xs) == [t |-> "list", n |-> 0, items |-> xs]
PyTuple(xs) == [t |-> "tuple", n |-> 0, items |-> xs]

Digits == <<"0", "1", "2", "3", "4", "5", "6", "7", "8", "9">>
DigitSet == {Digits[k] : k \in 1..10}
DigitVal(c) == (CHOOSE k \in 1..10 : Digits[k] = c) - 1
NoneWord == <<"N", "o", "n", "e">>

\* str(value) as SQLDatabase.run builds the text it returns: repr of the
\* elements joined by ", ", a one-element tuple written "(x,)".
RECURSIVE Repr(_)
RECURSIVE ReprItems(_)
ReprItems(xs) ==
    IF xs = <<>> THEN <<>>
    ELSE IF Len(xs) = 1 THEN Repr(xs[1])
    ELSE Repr(xs[1]) \o <<",", " ">> \o ReprItems(Tail(xs))
Repr(v) ==
    CASE v.t = "int" -> <<Digits[v.n + 1]>>
      [] v.t = "none" -> NoneWord
      [] v.t = "list" -> <<"[">> \o ReprItems(v.items) \o <<"]">>
      [] v.t = "tuple" ->
            IF Len(v.items) = 1
            THEN <<"(">> \o Repr(v.items[1]) \o <<",", ")">>
            ELSE <<"(">> \o ReprItems(v.items) \o <<")">>

\* Result of a parsing step: ok, the value read, the index after it, and
\* (for a bracketed group) whether a comma was read inside it.
ParseFail == [ok |-> FALSE, val |-> PyNone, pos |-> 0, comma |-> FALSE]
Parsed(v, p, c) == [ok |-> TRUE, val |-> v, pos |-> p, comma |-> c]

\* Index of the first character at or after i that is not a blank.
SkipBlanks(s, i) ==
    IF \A k \in i..Len(s) : s[k] = " "
    THEN Len(s) + 1
    ELSE CHOOSE k \in i..Len(s) : s[k] # " " /\ \A j \in i..(k-1) : s[j] = " "

\* Index of the last digit of the run of digits that starts at i.
DigitsEnd(s, i) ==
    IF \A k \in i..Len(s) : s[k] \in DigitSet
    THEN Len(s)
    ELSE (CHOOSE k \in i..Len(s) : s[k] \notin DigitSet
                                   /\ \A j \in i..(k-1) : s[j] \in DigitSet) - 1

RECURSIVE NumVal(_)
NumVal(ds) == IF ds = <<>> THEN 0
              ELSE 10 * NumVal(SubSeq(ds, 1, Len(ds) - 1)) + DigitVal(ds[Len(ds)])

\* Characters that may continue a name or a number.
WordChars == DigitSet \cup {"N", "o", "n", "e", "x"}

\* The one element of a one-element set. Intermediate results of the parser
\* are bound as x \in {e}, so that each is computed once.
The(S) == CHOOSE x \in S : TRUE

\* The expression grammar ast.literal_eval accepts, restricted to integers,
\* None, lists, tuples and parentheses (line 146).
RECURSIVE ParseExpr(_, _)
RECURSIVE ParseItems(_, _, _, _, _)
ParseItems(s, i, close, acc, comma) ==
    The({ IF j > Len(s) THEN ParseFail
          ELSE IF s[j] = close THEN Parsed(PyList(acc), j + 1, comma)
          ELSE The({ IF ~r.ok THEN ParseFail
                     ELSE The({ IF k > Len(s) THEN ParseFail
                                ELSE IF s[k] = ","
                                THEN ParseItems(s, k + 1, close, Append(acc, r.val), TRUE)
                                ELSE IF s[k] = close
                                THEN Parsed(PyList(Append(acc, r.val)), k + 1, comma)
                                ELSE ParseFail
                                : k \in {SkipBlanks(s, r.pos)} })
                     : r \in {ParseExpr(s, j)} })
          : j \in {SkipBlanks(s, i)} })
ParseNumber(s, j) ==
    The({ IF e < Len(s) /\ s[e + 1] \in WordChars THEN ParseFail
          ELSE IF e > j /\ s[j] = "0" /\ NumVal(SubSeq(s, j, e)) # 0 THEN ParseFail
          ELSE Parsed(PyInt(NumVal(SubSeq(s, j, e))), e + 1, FALSE)
          : e \in {DigitsEnd(s, j)} })
ParseGroup(s, j) ==
    The({ IF ~r.ok THEN ParseFail
          ELSE IF s[j] = "[" THEN Parsed(r.val, r.pos, FALSE)
          ELSE IF Len(r.val.items) = 1 /\ ~r.comma
               THEN Parsed(r.val.items[1], r.pos, FALSE)       \* (x) is x
               ELSE Parsed(PyTuple(r.val.items), r.pos, FALSE)
          : r \in {ParseItems(s, j + 1, IF s[j] = "[" THEN "]" ELSE ")", <<>>, FALSE)} })
ParseExpr(s, i) ==
    The({ IF j > Len(s) THEN ParseFail
          ELSE IF s[j] \in DigitSet THEN ParseNumber(s, j)
          ELSE IF StartsWith(SubSeq(s, j, Len(s)), NoneWord) THEN
              IF j + 4 <= Len(s) /\ s[j + 4] \in WordChars THEN ParseFail
              ELSE Parsed(PyNone, j + 4, FALSE)
          ELSE IF s[j] \in {"[", "("} THEN ParseGroup(s, j)
          ELSE ParseFail
          : j \in {SkipBlanks(s, i)} })

\* The top level of the text: one expression, or expressions separated by
\* commas (a tuple written without parentheses), up to the end of the text.
RECURSIVE ParseTop(_, _, _, _)
ParseTop(s, i, acc, comma) ==
    The({ IF j > Len(s)
          THEN IF comma THEN Parsed(PyList(acc), j, TRUE) ELSE ParseFail
          ELSE The({ IF ~r.ok THEN ParseFail
                     ELSE The({ IF k > Len(s)
                                THEN Parsed(PyList(Append(acc, r.val)), k, comma)
                                ELSE IF s[k] = ","
                                THEN ParseTop(s, k + 1, Append(acc, r.val), TRUE)
                                ELSE ParseFail
                                : k \in {SkipBlanks(s, r.pos)} })
                     : r \in {ParseExpr(s, j)} })
          : j \in {SkipBlanks(s, i)} })

\* ast.literal_eval(text) (line 146): leading blanks are dropped, the text
\* is read to its end. ok = FALSE stands for the exception raised.
literal_eval(s) ==
    The({ IF ~r.ok THEN ParseFail
          ELSE IF r.comma THEN Parsed(PyTuple(r.val.items), r.pos, FALSE)
          ELSE Parsed(r.val.items[1], r.pos, FALSE)
          : r \in {ParseTop(s, 1, <<>>, FALSE)} })

-----------------------------------------------------------------------------
(* The result block, main.py:144-161 *)

SeqMax(ns) == IF ns = {} THEN 0 ELSE CHOOSE m \in ns : \A k \in ns : k <= m

\* A frame built from the first record alone.
FrameOfFirstRow(v) ==
    [ok |-> TRUE, rows |-> Len(v.items[1].items), cols |-> 1]

\* pd.DataFrame(parsed_result) for a non-empty list whose first element is a
\* tuple (line 152): one row per element, as many columns as the longest
\* element; an element with no length (an int, None) raises.
DataFrame(v) ==
    IF \A k \in 1..Len(v.items) : v.items[k].t \in {"tuple", "list"}
    THEN [ok |-> TRUE, rows |-> Len(v.items),
          cols |-> SeqMax({Len(v.items[k].items) : k \in 1..Len(v.items)})]
    ELSE [ok |-> FALSE, rows |-> 0, cols |-> 0]

Shown(kind, r, c) == [kind |-> kind, rows |-> r, cols |-> c]
NotShown == Shown("none", 0, 0)

\* A length test that never sees an empty list.
NeverEmpty(v) == FALSE

\* len(parsed_result) == 0  (line 149)
IsEmptyList(v) == Len(v.items) = 0

\* The element the page receives for a result: lines 144-161. A result is
\* [kind |-> "str", text |-> chars, obj |-> _] or [kind |-> "obj", ...].
Normalize(res) ==
    IF res.kind = "str" THEN
        LET p == literal_eval(res.text) IN
        IF ~p.ok THEN Shown("text", 0, 0)                      \* line 159
        ELSE IF p.val.t = "list" THEN
            IF IsEmptyList(p.val) THEN Shown("info", 0, 0)     \* line 150
            ELSE IF Len(p.val.items) = 0
                 THEN Shown("text", 0, 0)   \* parsed_result[0] raises, caught at 158
            ELSE IF p.val.items[1].t = "tuple" THEN
                LET df == DataFrame(p.val) IN
                IF df.ok THEN Shown("dataframe", df.rows, df.cols)  \* line 153
                ELSE Shown("text", 0, 0)    \* raised at 152, caught at 158
            ELSE Shown("write", 0, 0)                          \* line 155
        ELSE Shown("write", 0, 0)                              \* line 157
    ELSE Shown("write", 0, 0)                                  \* line 161


-----------------------------------------------------------------------------
(* Inputs *)

RECURSIVE Flatten(_)
Flatten(ps) == IF ps = <<>> THEN <<>> ELSE Head(ps) \o Flatten(Tail(ps))

SeqsUpTo(S, n) == UNION {[1..k -> S] : k \in 0..n}

Select1 == <<"S", "E", "L", "E", "C", "T", " ", "1">>
SelectT == Select1 \o <<" ", "F", "R", "O", "M", " ", BT, "t", BT>>
Statements == {Select1, SelectT}
Suffixes == {<<";">>, Fence}
Blanks == {<<" ">>, <<"\n">>}

\* What a model response is assembled from: wrappers, noise and statements.
Pieces == {FenceSql, Fence, LabelSqlQuery, LabelQuery, <<BT>>} \cup Suffixes
            \cup Blanks \cup Statements
PartSeqs == SeqsUpTo(Pieces, MaxParts)

Unset == <<"unset">>          \* a text variable not assigned yet

StrResult(txt) == [kind |-> "str", text |-> txt, obj |-> PyNone]
ObjResult(v) == [kind |-> "obj", text |-> <<>>, obj |-> v]
NoResult == [kind |-> "unset", text |-> <<>>, obj |-> PyNone]

Cells == {PyInt(1), PyNone}
Records == {PyTuple(xs) : xs \in SeqsUpTo(Cells, MaxCols)}
\* What a list may hold: a cell, a record, or a list of at most one cell.
Elements == Cells \cup Records \cup {PyList(<<>>)} \cup {PyList(<<c>>) : c \in Cells}
ResultValues == Elements \cup {PyList(xs) : xs \in SeqsUpTo(Elements, MaxRows)}

JunkTokens == {"[", "]", "(", ")", ",", "1", " ", "x"}
\* Arbitrary token strings; none starts with a blank.
JunkTexts == {ts \in SeqsUpTo(JunkTokens, MaxJunk) : ts = <<>> \/ ts[1] # " "}

ResultInputs == {StrResult(Repr(v)) : v \in ResultValues}
                  \cup {StrResult(ts) : ts \in JunkTexts}
                  \cup {ObjResult(v) : v \in Elements}

\* db_options (line 23)
db_options == <<"enterprise_saas", "e_commerce", "analytics">>
DbNames == {db_options[k] : k \in 1..Len(db_options)}
EnvNames == {"MYSQL_PASSWORD", "GROQ_API_KEY"}

\* What the user may type, what the model may answer and what db.run may
\* return in the whole-script specification.
Questions == {<<>>, <<" ">>, <<"h", "i">>}
RawSamples == {Select1, FenceSql \o <<"\n">> \o Select1 \o <<";">>}
ResultSamples == {StrResult(<<>>), StrResult(Repr(PyList(<<>>))),
                  StrResult(Repr(PyList(<<PyTuple(<<PyInt(1), PyNone>>)>>))),
                  ObjResult(PyInt(1))}
ErrKinds == {"ProgrammingError", "OperationalError", "Other"}


-----------------------------------------------------------------------------
(* The script, one action per block between two external calls *)

Has(tr, e) == \E k \in 1..Len(tr) : tr[k] = e
Count(tr, e) == Cardinality({k \in 1..Len(tr) : tr[k] = e})
Min(a, b) == IF a <= b THEN a ELSE b

\* A cache that never finds an entry.
CacheMiss(cache, key) == 0

\* @st.cache_resource: the entry stored for the arguments, 0 if none
\* (lines 58 and 96).
CacheLookup(cache, key) == cache[key]

\* A cache that keeps a marker for a call that raised.
CacheRemembersFailure(cache, key) == [cache EXCEPT ![key] = -1]

\* @st.cache_resource when the wrapped function raises: nothing is stored
\* and the exception passes to the caller (lines 58-62, 67).
CacheAfterRaise(cache, key) == cache

\* A question test without the strip.
IsEmptyText(q) == q = <<>>

\* not user_question.strip()  (line 117)
IsBlank(q) == Strip(q) = <<>>

\* The except clauses, lines 165-175: the element each exception class gets.
ErrorElement(kind) ==
    CASE kind = "ProgrammingError" -> "error:syntax"
      [] kind = "OperationalError" -> "error:database"
      [] OTHER -> "error:other"
ErrorElements == {"error:syntax", "error:database", "error:other"}

\* A handler that starts the request again after reporting.
RetryAfterError == "invoke"

\* Where the script goes on after an except clause (lines 165-177).
AfterError == "sidebar"

\* A user interaction reruns the script from its first line with fresh
\* module variables.
BeginRun ==
    /\ pc' = "top"
    /\ db' = 0 /\ llm' = 0
    /\ raw' = Unset /\ sql_query' = Unset
    /\ result' = NoResult /\ display' = NotShown
    /\ trace' = <<>>
    /\ UNCHANGED <<procVars, obsVars, driverVars>>

\* The user picks a schema in the selectbox (line 24).
ChooseDb(d) ==
    /\ pc = "idle" /\ Has(trace, "selectbox")
    /\ d # selected_db
    /\ selected_db' = d /\ clicked' = FALSE
    /\ UNCHANGED user_question
    /\ BeginRun

\* The user edits the question (line 27).
TypeQuestion(q) ==
    /\ pc = "idle" /\ Has(trace, "text_input")
    /\ q # user_question
    /\ user_question' = q /\ clicked' = FALSE
    /\ UNCHANGED selected_db
    /\ BeginRun

\* The user presses the button (line 116).
ClickButton ==
    /\ pc = "idle" /\ Has(trace, "button")
    /\ clicked' = TRUE
    /\ UNCHANGED <<selected_db, user_question>>
    /\ BeginRun

\* The user asks for a rerun without touching a widget.
Rerun ==
    /\ pc = "idle"
    /\ clicked' = FALSE
    /\ UNCHANGED <<selected_db, user_question>>
    /\ BeginRun

\* The user supplies a missing variable in .env, read by the next run's
\* load_dotenv() (line 16).
ProvideEnv(k) ==
    /\ pc = "idle" /\ ~environ[k]
    /\ environ' = [environ EXCEPT ![k] = TRUE]
    /\ UNCHANGED <<db_cache, llm_cache, widgetVars, pc, db, llm, raw, sql_query,
                   result, display, trace, obsVars, driverVars>>

RunVarsUnchanged == UNCHANGED <<db, llm, raw, sql_query, result, display>>

\* Lines 16-53: title, the two input widgets, then the environment check.
ScriptTop ==
    /\ pc = "top"
    /\ LET shown == <<"title", "subheader", "selectbox", "text_input">> IN
       IF ~environ["MYSQL_PASSWORD"]
       THEN /\ trace' = trace \o shown \o <<"error:MYSQL_PASSWORD", "info", "code", "stop">>
            /\ pc' = "idle"
       ELSE IF ~environ["GROQ_API_KEY"]
       THEN /\ trace' = trace \o shown \o <<"error:GROQ_API_KEY", "info", "stop">>
            /\ pc' = "idle"
       ELSE /\ trace' = trace \o shown
            /\ pc' = "connect"
    /\ RunVarsUnchanged
    /\ UNCHANGED <<procVars, widgetVars, obsVars, driverVars>>

\* Lines 64-66 with a cached connection.
ConnectCached ==
    /\ pc = "connect"
    /\ CacheLookup(db_cache, selected_db) # 0
    /\ db' = CacheLookup(db_cache, selected_db)
    /\ trace' = trace \o <<"success:connected">>
    /\ pc' = "llm"
    /\ UNCHANGED <<llm, raw, sql_query, result, display>>
    /\ UNCHANGED <<procVars, widgetVars, obsVars, driverVars>>

\* Lines 59-66: no entry, SQLDatabase.from_uri returns a connection.
ConnectNew ==
    /\ pc = "connect"
    /\ CacheLookup(db_cache, selected_db) = 0
    /\ created[selected_db] < MaxCreations
    /\ LET h == created[selected_db] + 1 IN
       /\ created' = [created EXCEPT ![selected_db] = h]
       /\ db_cache' = [db_cache EXCEPT ![selected_db] = h]
       /\ db' = h
    /\ trace' = trace \o <<"from_uri", "success:connected">>
    /\ pc' = "llm"
    /\ UNCHANGED <<llm, raw, sql_query, result, display>>
    /\ UNCHANGED <<environ, llm_cache, widgetVars, llm_created, errors_seen,
                   last_conn_failed, driverVars>>

\* Lines 59-70: no entry, SQLDatabase.from_uri raises; the run stops.
ConnectFails ==
    /\ pc = "connect"
    /\ CacheLookup(db_cache, selected_db) = 0
    /\ db_cache' = CacheAfterRaise(db_cache, selected_db)
    /\ last_conn_failed' = selected_db
    /\ trace' = trace \o <<"from_uri", "error:connect", "info", "stop">>
    /\ pc' = "idle"
    /\ RunVarsUnchanged
    /\ UNCHANGED <<environ, llm_cache, widgetVars, created, llm_created,
                   errors_seen, driverVars>>

\* Lines 96-113: the cached model client, then the chain is assembled.
GetLlm ==
    /\ pc = "llm"
    /\ IF CacheLookup(llm_cache, "get_llm") # 0
       THEN /\ llm' = CacheLookup(llm_cache, "get_llm")
            /\ trace' = trace
            /\ UNCHANGED <<llm_cache, llm_created>>
       ELSE /\ llm_created < MaxCreations
            /\ llm_created' = llm_created + 1
            /\ llm_cache' = [llm_cache EXCEPT !["get_llm"] = llm_created + 1]
            /\ llm' = llm_created + 1
            /\ trace' = trace \o <<"ChatGroq">>
    /\ pc' = "button"
    /\ UNCHANGED <<db, raw, sql_query, result, display>>
    /\ UNCHANGED <<environ, db_cache, widgetVars, created, errors_seen,
                   last_conn_failed, driverVars>>

\* Lines 116-120: the button, and the blank-question guard.
Button ==
    /\ pc = "button"
    /\ IF ~clicked
       THEN trace' = trace \o <<"button">> /\ pc' = "sidebar"
       ELSE IF IsBlank(user_question)
       THEN trace' = trace \o <<"button", "warning:blank">> /\ pc' = "sidebar"
       ELSE trace' = trace \o <<"button">> /\ pc' = "invoke"
    /\ RunVarsUnchanged
    /\ UNCHANGED <<procVars, widgetVars, obsVars, driverVars>>

\* An exception reaches one of the except clauses of lines 165-175.
Report(kind, calls) ==
    /\ trace' = trace \o calls \o <<ErrorElement(kind), "info:hint">>
    /\ errors_seen' = Min(errors_seen + 1, MaxErrors)
    /\ pc' = AfterError
    /\ UNCHANGED <<procVars, widgetVars, created, llm_created, last_conn_failed,
                   driverVars>>

\* Line 123, get_schema(db) raises inside the chain.
InvokeSchemaFails(kind) ==
    /\ pc = "invoke"
    /\ Report(kind, <<"get_schema">>)
    /\ RunVarsUnchanged

\* Line 123, the model call raises.
InvokeModelFails ==
    /\ pc = "invoke"
    /\ Report("Other", <<"get_schema", "llm_call">>)
    /\ RunVarsUnchanged

\* Line 123, the chain returns the model's text.
InvokeReturns(r) ==
    /\ pc = "invoke"
    /\ raw' = r /\ sql_query' = r
    /\ trace' = trace \o <<"get_schema", "llm_call", "llm_return">>
    /\ pc' = "clean"
    /\ UNCHANGED <<db, llm, result, display>>
    /\ UNCHANGED <<procVars, widgetVars, obsVars, driverVars>>

\* Lines 126-130.
CleanPrefixes ==
    /\ pc = "clean"
    /\ sql_query' = RemovePrefixes(Strip(sql_query), prefixes_to_remove)
    /\ pc' = "finish"
    /\ UNCHANGED <<db, llm, raw, result, display, trace>>
    /\ UNCHANGED <<procVars, widgetVars, obsVars, driverVars>>

\* Line 132.
CleanFinish ==
    /\ pc = "finish"
    /\ sql_query' = Finish(sql_query)
    /\ trace' = trace \o <<"sanitized">>
    /\ pc' = "show"
    /\ UNCHANGED <<db, llm, raw, result, display>>
    /\ UNCHANGED <<procVars, widgetVars, obsVars, driverVars>>

\* Lines 133-136: the formatted statement is displayed.
ShowSql ==
    /\ pc = "show" /\ pass = 0
    /\ trace' = trace \o <<"code:sql">>
    /\ pc' = "execute"
    /\ RunVarsUnchanged
    /\ UNCHANGED <<procVars, widgetVars, obsVars, driverVars>>

\* Line 140, db.run raises.
ExecuteFails(kind) ==
    /\ pc = "execute"
    /\ Report(kind, <<"db.run">>)
    /\ RunVarsUnchanged

\* Line 140, db.run returns.
ExecuteReturns(res) ==
    /\ pc = "execute"
    /\ result' = res
    /\ trace' = trace \o <<"db.run", "db.return">>
    /\ pc' = "normalize"
    /\ UNCHANGED <<db, llm, raw, sql_query, display>>
    /\ UNCHANGED <<procVars, widgetVars, obsVars, driverVars>>

\* Lines 142-161.
ShowResult ==
    /\ pc = "normalize"
    /\ display' = Normalize(result)
    /\ trace' = trace \o <<"render">>
    /\ pc' = "success"
    /\ UNCHANGED <<db, llm, raw, sql_query, result>>
    /\ UNCHANGED <<procVars, widgetVars, obsVars, driverVars>>

\* Line 163.
Success ==
    /\ pc = "success"
    /\ trace' = trace \o <<"success:executed">>
    /\ pc' = "sidebar"
    /\ RunVarsUnchanged
    /\ UNCHANGED <<procVars, widgetVars, obsVars, driverVars>>

\* Lines 178-204; a failing table listing is caught at line 203.
Sidebar(listing) ==
    /\ pc = "sidebar"
    /\ trace' = trace \o <<listing>>
    /\ pc' = "idle"
    /\ RunVarsUnchanged
    /\ UNCHANGED <<procVars, widgetVars, obsVars, driverVars>>

SidebarOutcomes == {"sidebar:tables", "sidebar:no_tables", "sidebar:unavailable"}

-----------------------------------------------------------------------------
(* The whole script *)

Init ==
    /\ environ \in [EnvNames -> BOOLEAN]
    /\ db_cache = [d \in DbNames |-> 0]
    /\ llm_cache = [k \in {"get_llm"} |-> 0]
    /\ selected_db = db_options[1]
    /\ user_question = <<>>
    /\ clicked = FALSE
    /\ pc = "top"
    /\ db = 0 /\ llm = 0
    /\ raw = Unset /\ sql_query = Unset
    /\ result = NoResult /\ display = NotShown
    /\ trace = <<>>
    /\ created = [d \in DbNames |-> 0]
    /\ llm_created = 0
    /\ errors_seen = 0
    /\ last_conn_failed = "none"
    /\ parts = <<>> /\ first_out = Unset /\ pass = 0

Next ==
    \/ \E d \in DbNames : ChooseDb(d)
    \/ \E q \in Questions : TypeQuestion(q)
    \/ ClickButton
    \/ Rerun
    \/ \E k \in EnvNames : ProvideEnv(k)
    \/ ScriptTop
    \/ ConnectCached
    \/ ConnectNew
    \/ ConnectFails
    \/ GetLlm
    \/ Button
    \/ \E kind \in ErrKinds : InvokeSchemaFails(kind)
    \/ InvokeModelFails
    \/ \E r \in RawSamples : InvokeReturns(r)
    \/ CleanPrefixes
    \/ CleanFinish
    \/ ShowSql
    \/ \E kind \in ErrKinds : ExecuteFails(kind)
    \/ \E res \in ResultSamples : ExecuteReturns(res)
    \/ ShowResult
    \/ Success
    \/ \E listing \in SidebarOutcomes : Sidebar(listing)

Spec == Init /\ [][Next]_vars

-----------------------------------------------------------------------------
(* The cleaning block on its own: every assembled response, cleaned twice *)

InitSanitize ==
    /\ parts \in PartSeqs
    /\ raw = Flatten(parts) /\ sql_query = Flatten(parts)
    /\ first_out = Unset /\ pass = 1
    /\ pc = "clean"
    /\ environ = [k \in EnvNames |-> TRUE]
    /\ db_cache = [d \in DbNames |-> 0]
    /\ llm_cache = [k \in {"get_llm"} |-> 0]
    /\ selected_db = db_options[1]
    /\ user_question = <<"h", "i">>
    /\ clicked = TRUE
    /\ db = 0 /\ llm = 0
    /\ result = NoResult /\ display = NotShown
    /\ trace = <<>>
    /\ created = [d \in DbNames |-> 0]
    /\ llm_created = 0
    /\ errors_seen = 0
    /\ last_conn_failed = "none"

\* The cleaned text is handed to the cleaning block a second time.
Resubmit ==
    /\ pc = "show" /\ pass = 1
    /\ first_out' = sql_query
    /\ pass' = 2
    /\ pc' = "clean"
    /\ UNCHANGED <<procVars, widgetVars, obsVars, parts, db, llm, raw, sql_query,
                   result, display, trace>>

NextSanitize == CleanPrefixes \/ CleanFinish \/ Resubmit

SpecSanitize == InitSanitize /\ [][NextSanitize]_vars

-----------------------------------------------------------------------------
(* The result block on its own: every result of the bounded input set *)

InitNormalize ==
    /\ result \in ResultInputs
    /\ pc = "normalize"
    /\ parts = <<>> /\ first_out = Unset /\ pass = 0
    /\ raw = Select1 /\ sql_query = Select1
    /\ environ = [k \in EnvNames |-> TRUE]
    /\ db_cache = [d \in DbNames |-> 0]
    /\ llm_cache = [k \in {"get_llm"} |-> 0]
    /\ selected_db = db_options[1]
    /\ user_question = <<"h", "i">>
    /\ clicked = TRUE
    /\ db = 0 /\ llm = 0
    /\ display = NotShown
    /\ trace = <<>>
    /\ created = [d \in DbNames |-> 0]
    /\ llm_created = 0
    /\ errors_seen = 0
    /\ last_conn_failed = "none"

NextNormalize == ShowResult \/ Success

SpecNormalize == InitNormalize /\ [][NextNormalize]_vars


-----------------------------------------------------------------------------
(* Properties of the cleaning block, checked under SpecSanitize *)

Prefixes == {prefixes_to_remove[k] : k \in 1..Len(prefixes_to_remove)}
OptionalOne(S) == {<<>>} \cup {<<x>> : x \in S}

\* The response is one statement inside one wrapper: an optional prefix
\* (with an optional blank after it), the statement, an optional suffix.
IsWrapped(ps) ==
    \E pre \in OptionalOne(Prefixes), bl \in OptionalOne(Blanks),
       st \in Statements, suf \in OptionalOne(Suffixes) :
        /\ ps = pre \o bl \o <<st>> \o suf
        /\ pre # <<>> \/ suf # <<>>
        /\ bl # <<>> => pre # <<>>

InnerOf(ps) == CHOOSE st \in Statements : \E k \in 1..Len(ps) : ps[k] = st

\* C1: a response that is one statement in one recognized wrapper is cleaned
\* to exactly that statement, backtick-quoted identifiers included.
C1_WrapperRemovedInnerUnchanged ==
    (pass = 1 /\ pc = "show" /\ IsWrapped(parts)) => sql_query = InnerOf(parts)

\* C2: cleaning the output of one pass again changes nothing.
C2_Idempotent ==
    (pass = 2 /\ pc = "show") => sql_query = first_out

\* Index in prefixes_to_remove of the first prefix t starts with, 0 if none.
FirstMatch(t) ==
    IF \E k \in 1..Len(prefixes_to_remove) : StartsWith(t, prefixes_to_remove[k])
    THEN CHOOSE k \in 1..Len(prefixes_to_remove) :
            /\ StartsWith(t, prefixes_to_remove[k])
            /\ \A j \in 1..(k-1) : ~StartsWith(t, prefixes_to_remove[j])
    ELSE 0

\* The trimmed text with its first matching prefix (index k) taken off.
RestAfter(t, k) == Strip(DropPrefix(t, prefixes_to_remove[k]))

\* The remainder starts with a prefix listed after the one removed.
LaterMatch(t, k) ==
    \E j \in (k+1)..Len(prefixes_to_remove) :
        StartsWith(RestAfter(t, k), prefixes_to_remove[j])

IsSuffix(a, b) == Len(a) <= Len(b) /\ SubSeq(b, Len(b) - Len(a) + 1, Len(b)) = a

\* C3 as stated: only the first matching prefix is taken off, whatever the
\* remainder begins with is in the cleaned text.
C3_OnlyFirstPrefixRemoved ==
    (pass = 1 /\ pc = "show" /\ FirstMatch(Strip(raw)) # 0) =>
        sql_query = Finish(RestAfter(Strip(raw), FirstMatch(Strip(raw))))

\* C3 amended: every prefix is tried once, in list order, on the text left
\* so far. After the first match a further prefix at the start of the
\* remainder is taken off too when it is listed later, and the loop leaves
\* the remainder as it is when no later-listed prefix starts it.
C3_PrefixesTriedInListOrder ==
    (pass = 1 /\ pc = "finish") =>
        LET t == Strip(raw)
            k == FirstMatch(t)
        IN  IF k = 0 THEN sql_query = t
            ELSE IF LaterMatch(t, k)
                 THEN /\ Len(sql_query) < Len(RestAfter(t, k))
                      /\ IsSuffix(sql_query, RestAfter(t, k))
                 ELSE sql_query = RestAfter(t, k)

\* A response that starts with two prefixes in list order has been through
\* the loop, which took both off and left the statement.
C3_Witness ==
    /\ pass = 1 /\ pc = "finish"
    /\ FirstMatch(Strip(raw)) # 0
    /\ LaterMatch(Strip(raw), FirstMatch(Strip(raw)))
    /\ sql_query = Select1


-----------------------------------------------------------------------------
(* Properties of the result block, checked under SpecNormalize *)

\* The result block has run on the current result.
Rendered == display # NotShown

\* The result is text that parses to a list.
ParsesToList ==
    /\ result.kind = "str"
    /\ literal_eval(result.text).ok
    /\ literal_eval(result.text).val.t = "list"

ParsedItems == literal_eval(result.text).val.items

\* C5: a result whose text parses to an empty list is reported with the
\* "No results found." message, never as a table, a list or the raw text.
C5_EmptyListReportsNoResults ==
    (Rendered /\ ParsesToList /\ ParsedItems = <<>>) => display = Shown("info", 0, 0)

\* The texts "[]", "[ ]" and "([])" have each been reported that way.
C5_Witness ==
    /\ Rendered
    /\ result.kind = "str"
    /\ result.text \in {<<"[", "]">>, <<"[", " ", "]">>, <<"(", "[", "]", ")">>}
    /\ display.kind = "info"

IsComposite(v) == v.t \in {"tuple", "list"}

\* C6 as stated: every non-empty list of composite records is shown as a
\* table with one row per record and one column per field of the records.
C6_EveryRecordListIsATable ==
    (/\ Rendered /\ ParsesToList /\ ParsedItems # <<>>
     /\ \A k \in 1..Len(ParsedItems) : IsComposite(ParsedItems[k]))
    => /\ display.kind = "dataframe"
       /\ display.rows = Len(ParsedItems)
       /\ \A k \in 1..Len(ParsedItems) : display.cols = Len(ParsedItems[k].items)

\* All elements are tuples with the same number n >= 1 of fields.
UniformTuples(xs, n) ==
    /\ n >= 1
    /\ \A k \in 1..Len(xs) : xs[k].t = "tuple" /\ Len(xs[k].items) = n

\* C6 amended: a non-empty list of tuples that all have the same number
\* n >= 1 of fields is shown as a table of Len(list) rows and n columns; a
\* non-empty list whose first element is not a tuple is written as a list.
C6_UniformTupleListIsATable ==
    (Rendered /\ ParsesToList /\ ParsedItems # <<>>) =>
        /\ \A n \in 1..(MaxCols + 1) :
              UniformTuples(ParsedItems, n) =>
                  display = Shown("dataframe", Len(ParsedItems), n)
        /\ ParsedItems[1].t # "tuple" => display.kind = "write"

\* A two-record list of two-field tuples has been shown as a 2 x 2 table.
C6_Witness ==
    /\ Rendered /\ ParsesToList
    /\ Len(ParsedItems) = 2
    /\ UniformTuples(ParsedItems, 2)
    /\ display = Shown("dataframe", 2, 2)


-----------------------------------------------------------------------------
(* Properties of the whole script, checked under Spec *)

\* C4: a run that finds the password or the API key missing stops before
\* the schema selector and the question input are shown and before a
\* connection, a model client or the button exists.
C4_HaltsBeforeAnyInput ==
    (Has(trace, "error:MYSQL_PASSWORD") \/ Has(trace, "error:GROQ_API_KEY")) =>
        /\ ~Has(trace, "selectbox")
        /\ ~Has(trace, "text_input")
        /\ ~Has(trace, "from_uri") /\ ~Has(trace, "success:connected")
        /\ ~Has(trace, "ChatGroq")
        /\ ~Has(trace, "button")
        /\ db = 0 /\ llm = 0

\* Elements and calls of the request handler (lines 120-175).
HandlerEvents == {"get_schema", "llm_call", "llm_return", "sanitized", "code:sql",
                  "db.run", "db.return", "render", "success:executed", "info:hint"}
                    \cup ErrorElements

\* A step that reports an error: a new error element enters the trace.
ReportsError ==
    \E e \in ErrorElements \cup {"error:connect"} : Has(trace', e) /\ ~Has(trace, e)

\* What the script has put on the page and called when the handler starts.
PageBeforeHandler ==
    {<<"title", "subheader", "selectbox", "text_input">> \o c \o <<"success:connected">>
        \o g \o <<"button">> : c \in {<<>>, <<"from_uri">>}, g \in {<<>>, <<"ChatGroq">>}}

\* Every request starts from the same state, whatever failed before.
C7_FreshRequest ==
    pc = "invoke" =>
        /\ db = db_cache[selected_db] /\ db >= 1
        /\ llm = llm_cache["get_llm"] /\ llm >= 1
        /\ raw = Unset /\ sql_query = Unset
        /\ result = NoResult /\ display = NotShown
        /\ trace \in PageBeforeHandler

\* C7: an error is confined to the request that raised it. A step that
\* reports an error changes neither cache, the environment nor the widgets
\* (so a failed connection attempt is not remembered), and every request
\* starts with the cached connection and client and no result or error of
\* an earlier request.
C7_ErrorsAreLocal ==
    /\ []C7_FreshRequest
    /\ [][ReportsError => UNCHANGED <<environ, db_cache, llm_cache, widgetVars>>]_vars

\* After two failed requests, and after a failed connection attempt for the
\* selected schema, a request starts on a connection to that schema.
C7_Witness ==
    /\ pc = "invoke"
    /\ errors_seen >= 2
    /\ last_conn_failed = selected_db
    /\ db >= 1

Before(tr, a, b) ==
    \A i, j \in 1..Len(tr) : (tr[i] = a /\ tr[j] = b) => i < j

\* The stages of one request in the order the code runs them.
Stages == <<"get_schema", "llm_call", "llm_return", "sanitized", "code:sql",
            "db.run", "db.return", "render", "success:executed">>

\* C8: one press with a non-blank question drives one linear pipeline: each
\* stage at most once and only after the stage before it, exactly one
\* schema fetch, no execution unless the model call returned, the success
\* message only after execution and rendering and with no error reported,
\* and nothing but the hint (and the sidebar) after an error.
C8_LinearPipeline ==
    /\ \A e \in HandlerEvents : Count(trace, e) <= 1
    /\ Cardinality({k \in 1..Len(trace) : trace[k] \in ErrorElements}) <= 1
    /\ \A k \in 2..Len(Stages) :
          Has(trace, Stages[k]) =>
              Has(trace, Stages[k-1]) /\ Before(trace, Stages[k-1], Stages[k])
    /\ (clicked /\ Strip(user_question) # <<>> /\ Has(trace, "button") /\ pc # "invoke")
          => Count(trace, "get_schema") = 1
    /\ Has(trace, "db.run") => Has(trace, "llm_return")
    /\ Has(trace, "success:executed") =>
          /\ Has(trace, "db.return") /\ Has(trace, "render")
          /\ \A e \in ErrorElements : ~Has(trace, e)
    /\ \A k \in 1..Len(trace) :
          trace[k] \in ErrorElements =>
              \A j \in (k+1)..Len(trace) : trace[j] \in {"info:hint"} \cup SidebarOutcomes

\* A request has gone through every stage and shown a table, after an
\* earlier request had failed.
C8_Witness ==
    /\ pc = "idle"
    /\ Has(trace, "success:executed")
    /\ display.kind = "dataframe"
    /\ errors_seen >= 1

\* C9: a connection is created at most once per schema name and the model
\* client at most once; the cache keeps each handle, and every run uses the
\* handle the cache holds.
C9_CreatedOnceAndReused ==
    /\ \A d \in DbNames : created[d] <= 1 /\ db_cache[d] = created[d]
    /\ llm_created <= 1 /\ llm_cache["get_llm"] = llm_created
    /\ db # 0 => db = db_cache[selected_db]
    /\ llm # 0 => llm = llm_cache["get_llm"]

\* With all three schemas connected, a run has reused a connection and the
\* client without creating either.
C9_Witness ==
    /\ \A d \in DbNames : created[d] = 1
    /\ pc = "button"
    /\ db = 1 /\ llm = 1
    /\ ~Has(trace, "from_uri") /\ ~Has(trace, "ChatGroq")

\* C10: a press with an empty or whitespace-only question shows the warning
\* and nothing of the handler: no schema fetch, model call, execution,
\* success or error message.
C10_BlankQuestionOnlyWarns ==
    (clicked /\ Strip(user_question) = <<>>) =>
        /\ \A e \in HandlerEvents : ~Has(trace, e)
        /\ Has(trace, "button") => Has(trace, "warning:blank")
        /\ raw = Unset /\ result = NoResult /\ display = NotShown

\* A press with a whitespace-only question has run to its end.
C10_Witness ==
    /\ clicked /\ user_question = <<" ">>
    /\ pc = "idle"
    /\ Has(trace, "warning:blank")


=============================================================================
